---- MODULE Spec2Model ----
(***************************************************************************)
(* MissingTargetCost (pylearn2/costs/mlp/missing_target_cost.py): a cost   *)
(* that zeroes the per-element cost wherever the target is -1.             *)
(*                                                                         *)
(* The cost object holds one field, dropout_args.  expr(model, data) is    *)
(* modelled statement by statement (pc values are named after the source   *)
(* line about to run), for two callers that share the cost object and the  *)
(* model.  The model is a recording test double: every call expr makes on  *)
(* it is appended to the caller's log with its arguments and its result.   *)
(* Tensors are flattened to sequences; cost values are IEEE floats, kept   *)
(* as finite / infinite / not-a-number.                                    *)
(***************************************************************************)
EXTENDS Integers, Sequences, FiniteSets, TLC

VARIABLES
    dropout_args,   \* self.dropout_args, the only field of the cost object
    ctor_args,      \* history: the argument the constructor was given
    model,          \* the model (test double) every call is made with
    pc,             \* per caller: the line of expr about to run, or how the call ended
    data,           \* per caller: the data argument of expr
    specs,          \* per caller: (space, sources) last returned by get_data_specs
    Y_hat,          \* per caller: local Y_hat of expr
    costMatrix,     \* per caller: local costMatrix of expr
    outcome,        \* per caller: what the last expr call returned or raised
    log,            \* per caller: the calls made on the model during the current call
    ref             \* history: one earlier finished expr call (data and outcome)

vars == <<dropout_args, ctor_args, model, pc, data, specs, Y_hat, costMatrix,
          outcome, log, ref>>

\* ------------------------------------------------------------------ bounds

\* Number of entries of a (flattened) target tensor of the model's output space.
OutDim == 2

Procs == {"p1", "p2"}
MainProc == "p1"

\* ------------------------------------------------------------- IEEE floats
\* Only non-negative values occur, so signs are not kept.

Fin(n) == [k |-> "fin", v |-> n]
PosInf == [k |-> "inf", v |-> 0]
NaN == [k |-> "nan", v |-> 0]

IsZero(a) == a.k = "fin" /\ a.v = 0

\* Elementwise product of the tensor multiply: x * 0 is 0 only for finite x.
FMul(a, b) ==
    IF a.k = "nan" \/ b.k = "nan" THEN NaN
    ELSE IF a.k = "inf" \/ b.k = "inf"
         THEN (IF IsZero(a) \/ IsZero(b) THEN NaN ELSE PosInf)
         ELSE Fin(a.v * b.v)

FAdd(a, b) ==
    IF a.k = "nan" \/ b.k = "nan" THEN NaN
    ELSE IF a.k = "inf" \/ b.k = "inf" THEN PosInf
    ELSE Fin(a.v + b.v)

\* ------------------------------------------------------------ value domains

\* The value that marks a missing target.
Sentinel == -1

TargetVals == {Sentinel, 1}
CostVals == {Fin(0), Fin(5), PosInf, NaN}

SeqsOf(S, n) == [1..n -> S]

\* dropout_args is None or a mapping keyword -> value (a set of pairs).
None == [isNone |-> TRUE, items |-> {}]
Mapping(s) == [isNone |-> FALSE, items |-> s]
Configs ==
    { None,
      Mapping({}),
      Mapping({<<"default_input_include_prob", 1>>}),
      Mapping({<<"default_input_include_prob", 1>>, <<"default_input_scale", 2>>}) }

\* The input tensor of every batch, and batches: a valid batch has a target of
\* OutDim entries; a target one entry short does not fit the output space.
XVal == <<0>>
ValidBatches == {<<XVal, y>> : y \in SeqsOf(TargetVals, OutDim)}
InvalidBatches == {<<XVal, [i \in 1..(OutDim - 1) |-> 1]>>}
Batches == ValidBatches \cup InvalidBatches

\* ------------------------------------------------- the model (test double)
\* A model is [raises, raw]: which of its operations raises, and the canned
\* per-element costs its final layer answers with.

Ok(v) == [raised |-> FALSE, err |-> "", ret |-> v]
Raise(e) == [raised |-> TRUE, err |-> e, ret |-> <<>>]

get_input_space(m) == [space |-> "input", dim |-> Len(XVal)]
get_output_space(m) == [space |-> "output", dim |-> Len(m.raw)]
get_input_source(m) == "features"
get_target_source(m) == "targets"

\* Predictions are symbolic: which pass made them, from what, with what keywords.
NoPred == [op |-> "none", x |-> <<>>, kw |-> {}]
fprop(m, X) ==
    IF m.raises = "forward" THEN Raise("ForwardError")
    ELSE Ok([op |-> "fprop", x |-> X, kw |-> {}])
dropout_fprop(m, X, kw) ==
    IF m.raises = "forward" THEN Raise("ForwardError")
    ELSE Ok([op |-> "dropout_fprop", x |-> X, kw |-> kw])

\* A dropout prediction differs from the plain one, and so does its cost.
PredBias(yh) == IF yh.op = "fprop" THEN 0 ELSE 1 + Cardinality(yh.kw)
cost_matrix(m, Y, yh) ==
    IF m.raises = "cost_matrix" THEN Raise("CostMatrixError")
    ELSE Ok([p \in 1..Len(m.raw) |-> FAdd(m.raw[p], Fin(PredBias(yh)))])

\* The reduction of the test double: the sum of the entries.
RECURSIVE FSum(_)
FSum(s) == IF s = <<>> THEN Fin(0) ELSE FAdd(s[1], FSum(Tail(s)))
cost_from_cost_matrix(m, C) == Ok(FSum(C))

\* CompositeSpace(components) and its validate(data): every part of the data
\* must fit the component at the same place.
CompositeSpace(cs) == [components |-> cs]
Validates(space, d) ==
    /\ Len(space.components) = Len(d)
    /\ \A i \in 1..Len(d) : Len(d[i]) = space.components[i].dim

Entry(op, args, r) ==
    [op |-> op, args |-> args, raised |-> r.raised, err |-> r.err, ret |-> r.ret]

\* ------------------------------------------------------- MissingTargetCost

\* if self.dropout_args:
Truthy(d) == ~d.isNone /\ d.items # {}

\* Variant: one keyword is lost on the way to the model.
Kwargs_DropsScale(d) == {kv \in d.items : kv[1] # "default_input_scale"}

\* **self.dropout_args: the keywords of the call, a fresh mapping.
Kwargs(d) == d.items

\* Variant: the output space is put first.
get_data_specs_Swapped(m) ==
    << CompositeSpace(<<get_output_space(m), get_input_space(m)>>),
       <<get_input_source(m), get_target_source(m)>> >>

\* get_data_specs(model): the value returned, and the calls it makes.
get_data_specs(m) ==
    << CompositeSpace(<<get_input_space(m), get_output_space(m)>>),
       <<get_input_source(m), get_target_source(m)>> >>
GetDataSpecsCalls(m) ==
    << Entry("get_input_space", <<>>, Ok(get_input_space(m))),
       Entry("get_output_space", <<>>, Ok(get_output_space(m))),
       Entry("get_input_source", <<>>, Ok(get_input_source(m))),
       Entry("get_target_source", <<>>, Ok(get_target_source(m))) >>

\* Variant: T.eq in place of T.neq.
Neq_Eq(y) == IF y = Sentinel THEN 1 ELSE 0

\* T.neq(Y, -1), elementwise, as a 0/1 tensor.
Neq(y) == IF y # Sentinel THEN 1 ELSE 0
Mask(Y) == [p \in 1..Len(Y) |-> Fin(Neq(Y[p]))]

\* costMatrix *= T.neq(Y, -1)
MaskedCost(C, Y) == [p \in 1..Len(C) |-> FMul(C[p], Mask(Y)[p])]

NoSpecs == <<CompositeSpace(<<>>), <<>>>>
NoOutcome == [kind |-> "none", err |-> "", val |-> Fin(0)]
Returned(v) == [kind |-> "return", err |-> "", val |-> v]
Raised(e) == [kind |-> "raise", err |-> e, val |-> Fin(0)]
NoRef == [set |-> FALSE, data |-> <<>>, outcome |-> NoOutcome]

AtRest(p) == pc[p] \in {"idle", "returned", "raised", "specs_returned"}

\* The call of p ends with outcome o; the history may keep it for later comparison.
Finish(p, o) ==
    /\ outcome' = [outcome EXCEPT ![p] = o]
    /\ pc' = [pc EXCEPT ![p] = IF o.kind = "raise" THEN "raised" ELSE "returned"]
    /\ ref' \in {ref, [set |-> TRUE, data |-> data[p], outcome |-> o]}

\* A caller invokes expr(model, d).
CallExpr(p, d) ==
    /\ AtRest(p)
    /\ pc' = [pc EXCEPT ![p] = "expr_20"]
    /\ data' = [data EXCEPT ![p] = d]
    /\ specs' = [specs EXCEPT ![p] = NoSpecs]
    /\ Y_hat' = [Y_hat EXCEPT ![p] = NoPred]
    /\ costMatrix' = [costMatrix EXCEPT ![p] = <<>>]
    /\ outcome' = [outcome EXCEPT ![p] = NoOutcome]
    /\ log' = [log EXCEPT ![p] = <<>>]
    /\ UNCHANGED <<dropout_args, ctor_args, model, ref>>

\* A caller invokes get_data_specs(model) on its own.
CallGetDataSpecs(p) ==
    /\ AtRest(p)
    /\ pc' = [pc EXCEPT ![p] = "specs_returned"]
    /\ data' = [data EXCEPT ![p] = <<>>]
    /\ specs' = [specs EXCEPT ![p] = get_data_specs(model)]
    /\ Y_hat' = [Y_hat EXCEPT ![p] = NoPred]
    /\ costMatrix' = [costMatrix EXCEPT ![p] = <<>>]
    /\ outcome' = [outcome EXCEPT ![p] = NoOutcome]
    /\ log' = [log EXCEPT ![p] = GetDataSpecsCalls(model)]
    /\ UNCHANGED <<dropout_args, ctor_args, model, ref>>

\* space, sources = self.get_data_specs(model)
ExprGetDataSpecs(p) ==
    /\ pc[p] = "expr_20"
    /\ specs' = [specs EXCEPT ![p] = get_data_specs(model)]
    /\ log' = [log EXCEPT ![p] = @ \o GetDataSpecsCalls(model)]
    /\ pc' = [pc EXCEPT ![p] = "expr_21"]
    /\ UNCHANGED <<dropout_args, ctor_args, model, data, Y_hat, costMatrix, outcome, ref>>

\* Variant: the data is unpacked without being validated.
ExprValidate_Unchecked(p) ==
    /\ pc[p] = "expr_21"
    /\ log' = [log EXCEPT ![p] = Append(@, Entry("validate", <<data[p]>>, Ok(<<>>)))]
    /\ pc' = [pc EXCEPT ![p] = "expr_23"]
    /\ UNCHANGED <<dropout_args, ctor_args, model, data, specs, Y_hat, costMatrix,
                   outcome, ref>>

\* space.validate(data); (X, Y) = data
ExprValidate(p) ==
    /\ pc[p] = "expr_21"
    /\ IF Validates(specs[p][1], data[p])
       THEN /\ log' = [log EXCEPT ![p] = Append(@, Entry("validate", <<data[p]>>, Ok(<<>>)))]
            /\ pc' = [pc EXCEPT ![p] = "expr_23"]
            /\ UNCHANGED <<outcome, ref>>
       ELSE /\ log' = [log EXCEPT ![p] =
                          Append(@, Entry("validate", <<data[p]>>, Raise("DataSpecMismatch")))]
            /\ Finish(p, Raised("DataSpecMismatch"))
    /\ UNCHANGED <<dropout_args, ctor_args, model, data, specs, Y_hat, costMatrix>>

\* Variant: the stored mapping itself is handed over and comes back emptied.
ExprForward_Consumes(p) ==
    /\ pc[p] = "expr_23"
    /\ LET X == data[p][1]
           e == IF Truthy(dropout_args)
                THEN Entry("dropout_fprop", <<X, Kwargs(dropout_args)>>,
                           dropout_fprop(model, X, Kwargs(dropout_args)))
                ELSE Entry("fprop", <<X>>, fprop(model, X))
       IN /\ log' = [log EXCEPT ![p] = Append(@, e)]
          /\ dropout_args' = IF Truthy(dropout_args) THEN Mapping({}) ELSE dropout_args
          /\ IF e.raised
             THEN /\ Finish(p, Raised(e.err))
                  /\ UNCHANGED Y_hat
             ELSE /\ Y_hat' = [Y_hat EXCEPT ![p] = e.ret]
                  /\ pc' = [pc EXCEPT ![p] = "expr_27"]
                  /\ UNCHANGED <<outcome, ref>>
    /\ UNCHANGED <<ctor_args, model, data, specs, costMatrix>>

\* Variant: an error of the dropout pass is caught and the plain pass tried.
ExprForward_Fallback(p) ==
    /\ pc[p] = "expr_23"
    /\ LET X == data[p][1]
           d == Entry("dropout_fprop", <<X, Kwargs(dropout_args)>>,
                      dropout_fprop(model, X, Kwargs(dropout_args)))
           f == Entry("fprop", <<X>>, fprop(model, X))
           es == IF Truthy(dropout_args)
                 THEN (IF d.raised THEN <<d, f>> ELSE <<d>>)
                 ELSE <<f>>
           e == es[Len(es)]
       IN /\ log' = [log EXCEPT ![p] = @ \o es]
          /\ IF e.raised
             THEN /\ Finish(p, Raised(e.err))
                  /\ UNCHANGED Y_hat
             ELSE /\ Y_hat' = [Y_hat EXCEPT ![p] = e.ret]
                  /\ pc' = [pc EXCEPT ![p] = "expr_27"]
                  /\ UNCHANGED <<outcome, ref>>
    /\ UNCHANGED <<dropout_args, ctor_args, model, data, specs, costMatrix>>

\* Variant: the plain pass is made as well whenever the dropout pass is.
ExprForward_Both(p) ==
    /\ pc[p] = "expr_23"
    /\ LET X == data[p][1]
           d == Entry("dropout_fprop", <<X, Kwargs(dropout_args)>>,
                      dropout_fprop(model, X, Kwargs(dropout_args)))
           f == Entry("fprop", <<X>>, fprop(model, X))
           es == IF Truthy(dropout_args)
                 THEN (IF f.raised THEN <<f>> ELSE <<f, d>>)
                 ELSE <<f>>
           e == es[Len(es)]
       IN /\ log' = [log EXCEPT ![p] = @ \o es]
          /\ IF e.raised
             THEN /\ Finish(p, Raised(e.err))
                  /\ UNCHANGED Y_hat
             ELSE /\ Y_hat' = [Y_hat EXCEPT ![p] = e.ret]
                  /\ pc' = [pc EXCEPT ![p] = "expr_27"]
                  /\ UNCHANGED <<outcome, ref>>
    /\ UNCHANGED <<dropout_args, ctor_args, model, data, specs, costMatrix>>

\* if self.dropout_args: Y_hat = model.dropout_fprop(X, **self.dropout_args)
\* else: Y_hat = model.fprop(X)
ExprForward(p) ==
    /\ pc[p] = "expr_23"
    /\ LET X == data[p][1]
           e == IF Truthy(dropout_args)
                THEN Entry("dropout_fprop", <<X, Kwargs(dropout_args)>>,
                           dropout_fprop(model, X, Kwargs(dropout_args)))
                ELSE Entry("fprop", <<X>>, fprop(model, X))
       IN /\ log' = [log EXCEPT ![p] = Append(@, e)]
          /\ IF e.raised
             THEN /\ Finish(p, Raised(e.err))
                  /\ UNCHANGED Y_hat
             ELSE /\ Y_hat' = [Y_hat EXCEPT ![p] = e.ret]
                  /\ pc' = [pc EXCEPT ![p] = "expr_27"]
                  /\ UNCHANGED <<outcome, ref>>
    /\ UNCHANGED <<dropout_args, ctor_args, model, data, specs, costMatrix>>

\* costMatrix = model.layers[-1].cost_matrix(Y, Y_hat)
ExprCostMatrix(p) ==
    /\ pc[p] = "expr_27"
    /\ LET Y == data[p][2]
           e == Entry("cost_matrix", <<Y, Y_hat[p]>>, cost_matrix(model, Y, Y_hat[p]))
       IN /\ log' = [log EXCEPT ![p] = Append(@, e)]
          /\ IF e.raised
             THEN /\ Finish(p, Raised(e.err))
                  /\ UNCHANGED costMatrix
             ELSE /\ costMatrix' = [costMatrix EXCEPT ![p] = e.ret]
                  /\ pc' = [pc EXCEPT ![p] = "expr_28"]
                  /\ UNCHANGED <<outcome, ref>>
    /\ UNCHANGED <<dropout_args, ctor_args, model, data, specs, Y_hat>>

\* costMatrix *= T.neq(Y, -1)
ExprMask(p) ==
    /\ pc[p] = "expr_28"
    /\ costMatrix' = [costMatrix EXCEPT ![p] = MaskedCost(@, data[p][2])]
    /\ pc' = [pc EXCEPT ![p] = "expr_29"]
    /\ UNCHANGED <<dropout_args, ctor_args, model, data, specs, Y_hat, outcome, log, ref>>

\* return model.cost_from_cost_matrix(costMatrix)
ExprReturn(p) ==
    /\ pc[p] = "expr_29"
    /\ LET e == Entry("cost_from_cost_matrix", <<costMatrix[p]>>,
                      cost_from_cost_matrix(model, costMatrix[p]))
       IN /\ log' = [log EXCEPT ![p] = Append(@, e)]
          /\ Finish(p, Returned(e.ret))
    /\ UNCHANGED <<dropout_args, ctor_args, model, data, specs, Y_hat, costMatrix>>

Step(p) ==
    \/ \E d \in Batches : CallExpr(p, d)
    \/ CallGetDataSpecs(p)
    \/ ExprGetDataSpecs(p)
    \/ ExprValidate(p)
    \/ ExprForward(p)
    \/ ExprCostMatrix(p)
    \/ ExprMask(p)
    \/ ExprReturn(p)

\* __init__(self, dropout_args=None): the argument is stored as given.
Constructed(arg) ==
    /\ dropout_args = arg
    /\ ctor_args = arg

Fresh ==
    /\ pc = [p \in Procs |-> "idle"]
    /\ data = [p \in Procs |-> <<>>]
    /\ specs = [p \in Procs |-> NoSpecs]
    /\ Y_hat = [p \in Procs |-> NoPred]
    /\ costMatrix = [p \in Procs |-> <<>>]
    /\ outcome = [p \in Procs |-> NoOutcome]
    /\ log = [p \in Procs |-> <<>>]
    /\ ref = NoRef

\* Two callers share the cost object; the model answers with one canned cost
\* matrix of finite entries.
RawFew == {[p \in 1..OutDim |-> Fin(5)]}
Models == [raises : {"none", "forward", "cost_matrix"}, raw : RawFew]

Init ==
    /\ \E arg \in Configs : Constructed(arg)
    /\ model \in Models
    /\ Fresh

Next == \E p \in Procs : Step(p)

Spec == Init /\ [][Next]_vars

\* One caller; the model's canned cost matrix is any matrix over CostVals.
MaskModels == [raises : {"none", "forward", "cost_matrix"}, raw : SeqsOf(CostVals, OutDim)]

MaskInit ==
    /\ \E arg \in Configs : Constructed(arg)
    /\ model \in MaskModels
    /\ Fresh

MaskNext == Step(MainProc)

MaskSpec == MaskInit /\ [][MaskNext]_vars

\* ---------------------------------------------------------------- properties

ForwardOps == {"fprop", "dropout_fprop"}
ComputeOps == ForwardOps \cup {"cost_matrix", "cost_from_cost_matrix"}

Ops(p) == [i \in 1..Len(log[p]) |-> log[p][i].op]
Count(p, S) == Cardinality({i \in 1..Len(log[p]) : log[p][i].op \in S})
EntryOf(p, op) == log[p][CHOOSE i \in 1..Len(log[p]) : log[p][i].op = op]

\* The expr call of p has passed validation and made its forward pass.
ForwardDone(p) ==
    \/ pc[p] \in {"expr_27", "expr_28", "expr_29", "returned"}
    \/ pc[p] = "raised" /\ Count(p, ForwardOps) > 0

\* The data of p does not fit the composite space of the model's data specs.
Mismatched(p) ==
    LET space == CompositeSpace(<<get_input_space(model), get_output_space(model)>>)
    IN ~Validates(space, data[p])

Zeros(n) == [i \in 1..n |-> Fin(0)]
HasMissing(Y) == \E i \in 1..Len(Y) : Y[i] = Sentinel
AllMissing(Y) == \A i \in 1..Len(Y) : Y[i] = Sentinel

\* C1: a call that passed validation makes its forward pass through
\* dropout_fprop alone when the constructor was given a mapping (an empty one
\* included), and through fprop alone when it was given none.
C1_RoutingBySupplied ==
    \A p \in Procs :
        ForwardDone(p) =>
            IF ~ctor_args.isNone
            THEN Count(p, {"dropout_fprop"}) = 1 /\ Count(p, {"fprop"}) = 0
            ELSE Count(p, {"fprop"}) = 1 /\ Count(p, {"dropout_fprop"}) = 0

\* C2: once validation has run on data that does not fit the model's composite
\* space, the call has ended with DataSpecMismatch and the model has been asked
\* for no forward pass, no cost matrix and no reduction.
C2_MismatchBeforeModel ==
    \A p \in Procs :
        (pc[p] \notin {"idle", "specs_returned", "expr_20", "expr_21"} /\ Mismatched(p)) =>
            /\ pc[p] = "raised"
            /\ outcome[p] = Raised("DataSpecMismatch")
            /\ Count(p, ComputeOps) = 0

C2_Witness ==
    \E p \in Procs :
        /\ pc[p] = "raised"
        /\ Mismatched(p)
        /\ outcome[p].err = "DataSpecMismatch"
        /\ Ops(p)[Len(log[p])] = "validate"

\* C3: the matrix handed to cost_from_cost_matrix is 0 wherever the target is
\* -1 and the raw cost everywhere else, whatever the raw cost is.
C3_MaskedExact ==
    \A p \in Procs :
        pc[p] = "returned" =>
            LET Y == data[p][2]
                C == EntryOf(p, "cost_matrix").ret
                M == EntryOf(p, "cost_from_cost_matrix").args[1]
            IN /\ Len(M) = Len(Y)
               /\ \A i \in 1..Len(Y) : M[i] = IF Y[i] = Sentinel THEN Fin(0) ELSE C[i]

\* C4: for a target without a -1 entry the call returns what the model's
\* reduction gives for the raw cost matrix.
C4_NoMissingIsUnmasked ==
    \A p \in Procs :
        (pc[p] = "returned" /\ ~HasMissing(data[p][2])) =>
            LET C == EntryOf(p, "cost_matrix").ret
            IN /\ EntryOf(p, "cost_from_cost_matrix").args[1] = C
               /\ outcome[p] = Returned(FSum(C))

C4_Witness ==
    \E p \in Procs :
        /\ pc[p] = "returned"
        /\ ~HasMissing(data[p][2])
        /\ \E i \in 1..OutDim : EntryOf(p, "cost_matrix").ret[i].k = "inf"
        /\ \E i \in 1..OutDim : EntryOf(p, "cost_matrix").ret[i].k = "fin"

\* C5: for a target whose entries are all -1 the matrix handed to the reduction
\* is all zero and the call returns the reduction of the zero matrix.
C5_AllMissingIsZero ==
    \A p \in Procs :
        (pc[p] = "returned" /\ AllMissing(data[p][2])) =>
            /\ EntryOf(p, "cost_from_cost_matrix").args[1] = Zeros(Len(data[p][2]))
            /\ outcome[p] = Returned(FSum(Zeros(Len(data[p][2]))))

\* C6: two finished expr calls with the same data have the same outcome,
\* whichever caller made them and whatever was called in between.
C6_Deterministic ==
    /\ \A p \in Procs :
           (pc[p] \in {"returned", "raised"} /\ ref.set /\ ref.data = data[p]) =>
               outcome[p] = ref.outcome
    /\ \A p, q \in Procs :
           (pc[p] \in {"returned", "raised"} /\ pc[q] \in {"returned", "raised"}
               /\ data[p] = data[q]) =>
               outcome[p] = outcome[q]

C6_Witness ==
    /\ ref.set
    /\ Truthy(ctor_args)
    /\ \A p \in Procs :
           /\ pc[p] = "returned"
           /\ data[p] = ref.data
           /\ HasMissing(data[p][2])
           /\ ~AllMissing(data[p][2])

\* C7: get_data_specs gives the composite of the model's input space and output
\* space, in that order, with the pair (input source, target source); it asks the
\* model for nothing else and leaves the cost object as constructed.
C7_DataSpecs ==
    \A p \in Procs :
        pc[p] \in {"specs_returned", "expr_21"} =>
            /\ specs[p][1].components = <<get_input_space(model), get_output_space(model)>>
            /\ specs[p][2] = <<get_input_source(model), get_target_source(model)>>
            /\ Ops(p) = <<"get_input_space", "get_output_space",
                          "get_input_source", "get_target_source">>
            /\ dropout_args = ctor_args

C7_Witness ==
    /\ pc["p1"] = "specs_returned"
    /\ specs["p1"][1].components[2].dim = OutDim
    /\ pc["p2"] = "expr_28"

\* C8: a forward pass or cost_matrix call that raised is the last call of its
\* expr call, which ended with that very error after a single forward pass.
C8_ErrorsPropagate ==
    \A p \in Procs :
        \A i \in 1..Len(log[p]) :
            (log[p][i].raised /\ log[p][i].op \in ForwardOps \cup {"cost_matrix"}) =>
                /\ i = Len(log[p])
                /\ pc[p] = "raised"
                /\ outcome[p] = Raised(log[p][i].err)
                /\ Count(p, ForwardOps) = 1
                /\ Count(p, {"cost_from_cost_matrix"}) = 0

C8_Witness ==
    /\ pc["p1"] = "raised"
    /\ outcome["p1"].err = "ForwardError"
    /\ Ops("p1")[Len(log["p1"])] = "dropout_fprop"
    /\ pc["p2"] = "raised"
    /\ outcome["p2"].err = "ForwardError"

\* C9: the stored configuration is the constructor's argument, and every
\* dropout_fprop call got X and exactly that configuration's keywords.
C9_ConfigVerbatim ==
    /\ dropout_args = ctor_args
    /\ \A p \in Procs :
           \A i \in 1..Len(log[p]) :
               log[p][i].op = "dropout_fprop" =>
                   log[p][i].args = <<data[p][1], ctor_args.items>>

C9_Witness ==
    /\ Cardinality(ctor_args.items) = 2
    /\ pc["p1"] = "returned"
    /\ Count("p1", {"dropout_fprop"}) = 1
    /\ pc["p2"] = "expr_28"
    /\ Count("p2", {"dropout_fprop"}) = 1

\* C10: a call that returned made, in this order and once each: the data specs
\* accessors, validate(data), one forward pass on X, cost_matrix(Y, Y_hat) with
\* that pass's result, cost_from_cost_matrix on the product of the raw costs and
\* the mask; and it returned the reduction's result.
C10_CallOrder ==
    \A p \in Procs :
        pc[p] = "returned" =>
            /\ Len(log[p]) = 8
            /\ SubSeq(Ops(p), 1, 5) = <<"get_input_space", "get_output_space",
                                        "get_input_source", "get_target_source", "validate">>
            /\ log[p][5].args = <<data[p]>>
            /\ log[p][6].op \in ForwardOps
            /\ log[p][6].args[1] = data[p][1]
            /\ log[p][7].op = "cost_matrix"
            /\ log[p][7].args = <<data[p][2], log[p][6].ret>>
            /\ log[p][8].op = "cost_from_cost_matrix"
            /\ log[p][8].args =
                   <<[i \in 1..Len(data[p][2]) |->
                         FMul(log[p][7].ret[i], Fin(IF data[p][2][i] = Sentinel THEN 0 ELSE 1))]>>
            /\ outcome[p] = Returned(log[p][8].ret)

C10_Witness ==
    /\ pc["p1"] = "returned"
    /\ log["p1"][6].op = "dropout_fprop"
    /\ pc["p2"] = "returned"
    /\ log["p2"][6].op = "dropout_fprop"
    /\ HasMissing(data["p1"][2])
    /\ ~AllMissing(data["p1"][2])

====
